---- MODULE Spec2Model ----
(***************************************************************************)
(* Car Tracker: an Express application with session login, a merged        *)
(* register/login endpoint, a strict and a permissive (demo) auth gate,    *)
(* and per-user CRUD of cars on an HTML-form surface and a JSON surface.   *)
(*                                                                         *)
(* The state is the two collections (users, cars), the session store, and  *)
(* the position of every request that is suspended at an await between two *)
(* accesses of the user collection.  res is the response of the request    *)
(* that finished last.                                                     *)
(***************************************************************************)
EXTENDS Integers, Sequences, FiniteSets, TLC

\* ------------------------------------------------------------------ bounds
\* Number of car documents ever created (ObjectIds 1..MaxCars are handed out).
MaxCars == 1
\* Number of distinct bcrypt salts a hash may draw.
MaxSalt == 1

\* ------------------------------------------------------------- JS values
\* A JavaScript value of a request body: a type tag, a number, a string
\* (a sequence of characters).  NaN is typeof "number" but kept apart.
\* "oid" is a well-formed 24-hex-digit string, the text of ObjectId n.
Undef == [t |-> "undefined", n |-> 0, s |-> <<>>]
NaN == [t |-> "NaN", n |-> 0, s |-> <<>>]
Null == [t |-> "null", n |-> 0, s |-> <<>>]
Num(k) == [t |-> "number", n |-> k, s |-> <<>>]
Str(cs) == [t |-> "string", n |-> 0, s |-> cs]
Bool(b) == [t |-> "boolean", n |-> IF b THEN 1 ELSE 0, s |-> <<>>]
Oid(k) == [t |-> "oid", n |-> k, s |-> <<>>]

\* !v
Truthy(v) ==
  CASE v.t = "undefined" -> FALSE
    [] v.t = "null" -> FALSE
    [] v.t = "NaN" -> FALSE
    [] v.t = "number" -> v.n # 0
    [] v.t = "string" -> v.s # <<>>
    [] v.t = "boolean" -> v.n = 1
    [] v.t = "oid" -> TRUE

\* a || b
OrElse(a, b) == IF Truthy(a) THEN a ELSE b

IsSpace(c) == c = " "

RECURSIVE TrimStart(_)
TrimStart(cs) ==
  IF cs # <<>> /\ IsSpace(Head(cs)) THEN TrimStart(Tail(cs)) ELSE cs

RECURSIVE TrimEnd(_)
TrimEnd(cs) ==
  IF cs # <<>> /\ IsSpace(cs[Len(cs)])
  THEN TrimEnd(SubSeq(cs, 1, Len(cs) - 1))
  ELSE cs

\* String.prototype.trim on the characters of a string
Trim(cs) == TrimEnd(TrimStart(cs))

Digits == <<"0", "1", "2", "3", "4", "5", "6", "7", "8", "9">>

IsDigit(c) == \E i \in 1..10 : Digits[i] = c

DigitVal(c) == (CHOOSE i \in 1..10 : Digits[i] = c) - 1

RECURSIVE DecimalValue(_)
DecimalValue(cs) ==
  IF cs = <<>> THEN 0
  ELSE 10 * DecimalValue(SubSeq(cs, 1, Len(cs) - 1)) + DigitVal(cs[Len(cs)])

AllDigits(cs) == cs # <<>> /\ \A i \in 1..Len(cs) : IsDigit(cs[i])

\* Number(v): the numeric conversion of a JS value (integers only)
ToNumber(v) ==
  CASE v.t = "undefined" -> NaN
    [] v.t = "null" -> Num(0)
    [] v.t = "NaN" -> NaN
    [] v.t = "number" -> v
    [] v.t = "boolean" -> Num(v.n)
    [] v.t = "oid" -> NaN
    [] v.t = "string" ->
         LET cs == Trim(v.s) IN
         IF cs = <<>> THEN Num(0)
         ELSE IF AllDigits(cs) THEN Num(DecimalValue(cs))
         ELSE IF Head(cs) = "-" /\ AllDigits(Tail(cs))
           THEN Num(0 - DecimalValue(Tail(cs)))
         ELSE NaN

\* v < k for a number k: both sides are converted to numbers, NaN compares false
LessThan(v, k) == LET x == ToNumber(v) IN x.t = "number" /\ x.n < k

\* v.trim() is a TypeError unless v is a string
HasTrim(v) == v.t = "string"

TrimValue(v) == Str(Trim(v.s))

\* ------------------------------------------------------------ the words
GASOLINE == Str(<<"g", "a", "s", "o", "l", "i", "n", "e">>)
DIESEL == Str(<<"d", "i", "e", "s", "e", "l">>)
ELECTRIC == Str(<<"e", "l", "e", "c", "t", "r", "i", "c">>)
HYBRID == Str(<<"h", "y", "b", "r", "i", "d">>)
AUTO == Str(<<"a", "u", "t", "o">>)
MANUAL == Str(<<"m", "a", "n", "u", "a", "l">>)
ON == Str(<<"o", "n">>)
TRUESTR == Str(<<"t", "r", "u", "e">>)
EMPTY == Str(<<>>)
DEMO == Str(<<"d", "e", "m", "o">>)

\* ------------------------------------------------- models/Car.js: carSchema
MinYear == 1885
MinMpg == 0
FuelEnum == {GASOLINE, DIESEL, ELECTRIC, HYBRID}
TransmissionEnum == {AUTO, MANUAL}
DefaultNotes == EMPTY
DefaultFuel == GASOLINE
DefaultIsElectric == Bool(FALSE)
DefaultTransmission == AUTO

CastError == [t |-> "CastError", n |-> 0, s |-> <<>>]

IsNullish(v) == v.t \in {"undefined", "null"}

RECURSIVE NatToChars(_)
NatToChars(k) ==
  IF k < 10 THEN <<Digits[k + 1]>>
  ELSE NatToChars(k \div 10) \o <<Digits[(k % 10) + 1]>>

\* type: Number.  Nullish stays, "" is null, strings and booleans go through
\* Number(), NaN is a cast error.
CastNumber(v) ==
  CASE IsNullish(v) -> v
    [] v.t = "string" /\ v.s = <<>> -> Null
    [] v.t \in {"string", "boolean"} ->
         IF ToNumber(v).t = "NaN" THEN CastError ELSE ToNumber(v)
    [] v.t = "number" -> v
    [] OTHER -> CastError

\* type: String
CastString(v) ==
  CASE IsNullish(v) -> v
    [] v.t = "string" -> v
    [] v.t = "number" ->
         IF v.n >= 0 THEN Str(NatToChars(v.n))
         ELSE Str(<<"-">> \o NatToChars(0 - v.n))
    [] v.t = "boolean" -> IF v.n = 1 THEN TRUESTR ELSE Str(<<"f", "a", "l", "s", "e">>)
    [] OTHER -> CastError

\* type: Boolean
CastBoolean(v) ==
  CASE IsNullish(v) -> v
    [] v.t = "boolean" -> v
    [] v.t = "number" /\ v.n \in {0, 1} -> Bool(v.n = 1)
    [] v = TRUESTR -> Bool(TRUE)
    [] OTHER -> CastError

\* type: ObjectId, for _id and owner: the number of the ObjectId, or 0 when
\* the text is no ObjectId (a cast error)
CastObjectId(v) == IF v.t = "oid" THEN v.n ELSE 0

\* The fields of the schema, cast to their types
CastFields(p) ==
  [model |-> CastString(p.model),
   year |-> CastNumber(p.year),
   mpg |-> CastNumber(p.mpg),
   notes |-> CastString(p.notes),
   fuel |-> CastString(p.fuel),
   isElectric |-> CastBoolean(p.isElectric),
   transmission |-> CastString(p.transmission)]

FieldNames == {"model", "year", "mpg", "notes", "fuel", "isElectric", "transmission"}

HasCastError(c) == \E f \in FieldNames : c[f] = CastError

\* default: applied to a field that is undefined
WithDefaults(c) ==
  [c EXCEPT !.notes = IF @.t = "undefined" THEN DefaultNotes ELSE @,
            !.fuel = IF @.t = "undefined" THEN DefaultFuel ELSE @,
            !.isElectric = IF @.t = "undefined" THEN DefaultIsElectric ELSE @,
            !.transmission = IF @.t = "undefined" THEN DefaultTransmission ELSE @]

\* required, min and enum: the validators of the schema, run by create/save
Validates(c) ==
  /\ ~IsNullish(c.model) /\ c.model.s # <<>>
  /\ ~IsNullish(c.year) /\ c.year.n >= MinYear
  /\ ~IsNullish(c.mpg) /\ c.mpg.n >= MinMpg
  /\ IsNullish(c.fuel) \/ c.fuel \in FuelEnum
  /\ IsNullish(c.transmission) \/ c.transmission \in TransmissionEnum

\* Car.create(payload) resolves: the payload casts and validates
CreateOk(p) == ~HasCastError(CastFields(p)) /\ Validates(WithDefaults(CastFields(p)))

\* Mutant: the document is inserted with the first account as its owner
NewCarOfFirstUser(id, owner, p, at) ==
  LET c == WithDefaults(CastFields(p)) IN
  [id |-> id, owner |-> 1, model |-> c.model, year |-> c.year, mpg |-> c.mpg,
   notes |-> c.notes, fuel |-> c.fuel, isElectric |-> c.isElectric,
   transmission |-> c.transmission, createdAt |-> at]

\* The document Car.create(payload) inserts
NewCar(id, owner, p, at) ==
  LET c == WithDefaults(CastFields(p)) IN
  [id |-> id, owner |-> owner, model |-> c.model, year |-> c.year, mpg |-> c.mpg,
   notes |-> c.notes, fuel |-> c.fuel, isElectric |-> c.isElectric,
   transmission |-> c.transmission, createdAt |-> at]

\* Car.updateOne(filter, {$set: u}) resolves: the filter and the update cast.
\* No validator runs on an update.
UpdateOk(id, u) == CastObjectId(id) # 0 /\ ~HasCastError(CastFields(u))

\* $set: a key whose value is undefined is dropped from the update
SetFields(car, u) ==
  LET c == CastFields(u)
      pick(f) == IF c[f].t = "undefined" THEN car[f] ELSE c[f] IN
  [car EXCEPT !.model = pick("model"), !.year = pick("year"), !.mpg = pick("mpg"),
              !.notes = pick("notes"), !.fuel = pick("fuel"),
              !.isElectric = pick("isElectric"),
              !.transmission = pick("transmission")]

\* Mutant: the filter {_id: id}, without the owner
MatchesIdOnly(car, id, owner) == car.id = CastObjectId(id)

\* The filter {_id: id, owner: owner}
Matches(car, id, owner) == car.id = CastObjectId(id) /\ car.owner = owner

\* Car.updateOne({_id, owner}, {$set: u}) on the collection
UpdateOne(cs, id, owner, u) ==
  [i \in 1..Len(cs) |-> IF Matches(cs[i], id, owner) THEN SetFields(cs[i], u) ELSE cs[i]]

RECURSIVE SelectSeqBy(_, _)
SelectSeqBy(cs, keep) ==
  IF cs = <<>> THEN <<>>
  ELSE IF Head(cs).id \in keep THEN <<Head(cs)>> \o SelectSeqBy(Tail(cs), keep)
  ELSE SelectSeqBy(Tail(cs), keep)

\* Car.deleteOne({_id, owner}) on the collection
DeleteOne(cs, id, owner) ==
  SelectSeqBy(cs, {cs[i].id : i \in {j \in 1..Len(cs) : ~Matches(cs[j], id, owner)}})

\* Car.find({owner}): the owner's documents in the collection's natural order
FindByOwner(cs, owner) ==
  SelectSeqBy(cs, {cs[i].id : i \in {j \in 1..Len(cs) : cs[j].owner = owner}})

RECURSIVE InsertByCreatedAtDesc(_, _)
InsertByCreatedAtDesc(c, sorted) ==
  IF sorted = <<>> THEN <<c>>
  ELSE IF c.createdAt > Head(sorted).createdAt THEN <<c>> \o sorted
  ELSE <<Head(sorted)>> \o InsertByCreatedAtDesc(c, Tail(sorted))

RECURSIVE SortByCreatedAtDesc(_)
\* .sort({createdAt: -1}): most recent first, ties in natural order
SortByCreatedAtDesc(cs) ==
  IF cs = <<>> THEN <<>>
  ELSE InsertByCreatedAtDesc(cs[Len(cs)], SortByCreatedAtDesc(SubSeq(cs, 1, Len(cs) - 1)))

\* ------------------------------------------------------------------ state
VARIABLES
  users,      \* the User collection, in insertion order
  cars,       \* the Car collection, in insertion order
  nextCar,    \* the ObjectId the next created car gets
  now,        \* the clock createdAt is read from
  session,    \* the session store: per session cookie, userId and flash
  task,       \* per session, the request suspended between two awaits
  loggedOut,  \* history: sessions logged out and not logged in again since
  res,        \* the response of the request that finished last
  proc        \* the process and its store connection

vars == <<users, cars, nextCar, now, session, task, loggedOut, res, proc>>

Sessions == {"s1", "s2"}

\* req.session of a cookie the store holds nothing for (saveUninitialized: false)
EmptySession == [userId |-> 0, flash |-> ""]

\* No response was sent: the handler's promise rejected and nothing caught it
Unhandled == 0

\* req.body when nothing was sent
NoBody ==
  [username |-> Undef, password |-> Undef, model |-> Undef, year |-> Undef,
   mpg |-> Undef, notes |-> Undef, fuel |-> Undef, isElectric |-> Undef,
   transmission |-> Undef]

\* A request (session cookie, route, id parameter, body) and its response
\* (status, redirect target, JSON error, car list), with the user the handler
\* acted as and what res.locals.flash held
Response(s, route, id, b, status, to, error, user, list, shown) ==
  [sess |-> s, route |-> route, id |-> id, body |-> b, status |-> status, to |-> to,
   error |-> error, user |-> user, list |-> list, flash |-> shown]

\* No request of the session is suspended
Idle == [pc |-> "idle", route |-> "", id |-> Undef, body |-> NoBody]

NoRes == Response("", "", Undef, NoBody, Unhandled, "", "", 0, <<>>, "")

\* ------------------------------------------------------------- the process
\* The module body runs to its end: mongoose.connect is started and not
\* awaited, app.listen is called.  The process listens from then on.
Connecting == "connecting"

\* mongoose.connect resolved
Connected == "connected"

\* process.exit(1)
Exited == "exited"

\* .then(() => console.log("Mongo connected"))
ConnectResolve ==
  /\ proc = Connecting
  /\ proc' = Connected
  /\ UNCHANGED <<users, cars, nextCar, now, session, task, loggedOut, res>>

\* .catch((err) => { ...; process.exit(1) })
ConnectReject ==
  /\ proc = Connecting
  /\ proc' = Exited
  /\ UNCHANGED <<users, cars, nextCar, now, session, task, loggedOut, res>>

\* A request that reads or writes a collection or the session store waits for
\* the connection
StoreReady == proc = Connected

\* The listening process answers a request that brings no session cookie and
\* touches no collection without the store
NoStoreNeeded(s) == proc = Connecting /\ session[s] = EmptySession

\* ------------------------------------------------------ the User collection
\* bcrypt.hash(password, 10): a salted hash
Hash(pw, salt) == [salt |-> salt, of |-> pw]

\* Mutant: every password compares equal
CompareAny(pw, h) == TRUE

\* bcrypt.compare(password, hash)
Compare(pw, h) == h.of = pw

NoUser == [id |-> 0, username |-> Undef, password |-> Hash(Undef, 0)]

\* User.findOne({username})
FindUser(us, name) ==
  IF \E i \in 1..Len(us) : us[i].username = name
  THEN us[CHOOSE i \in 1..Len(us) :
            /\ us[i].username = name
            /\ \A j \in 1..(i - 1) : us[j].username # name]
  ELSE NoUser

\* The unique index on username: an insert of a taken username is rejected
UserCreateOk(us, name) == FindUser(us, name) = NoUser

\* User.create({username, password: hash}): the collection after the insert
UserCreate(us, name, hash) ==
  Append(us, [id |-> Len(us) + 1, username |-> name, password |-> hash])

\* --------------------------------------------------------- session middleware
\* res.locals.flash = req.session.flash; delete req.session.flash
FlashShown(s) == session[s].flash

FlashConsumed(s) == [session[s] EXCEPT !.flash = ""]

\* The session is written back when the response ends.  After an unhandled
\* rejection the response ends only if an error handler answers, so the store
\* keeps the old session or gets req.session.
SessionSaved(s, mem, status) ==
  IF status = Unhandled
  THEN session' \in {session, [session EXCEPT ![s] = mem]}
  ELSE session' = [session EXCEPT ![s] = mem]

\* Mutant: the strict gate lets every request through
RequireAuthAlways(mem) == TRUE

\* requireAuth
RequireAuthPasses(mem) == mem.userId # 0

\* req.body of POST /login
LoginBody(username, password) ==
  [NoBody EXCEPT !.username = username, !.password = password]

\* ----------------------------------------------------------------- GET /
Entry(s) ==
  /\ StoreReady \/ NoStoreNeeded(s)
  /\ task[s].pc = "idle"
  /\ LET mem == FlashConsumed(s) IN
     /\ session' = [session EXCEPT ![s] = mem]
     /\ res' = IF mem.userId # 0
               THEN Response(s, "/", Undef, NoBody, 302, "/dashboard", "", mem.userId, <<>>, FlashShown(s))
               ELSE Response(s, "/", Undef, NoBody, 200, "", "", 0, <<>>, FlashShown(s))
  /\ UNCHANGED <<users, cars, nextCar, now, task, loggedOut, proc>>

\* ------------------------------------------------------------ POST /login
\* From the start of the handler to the response, or to the await of
\* bcrypt.hash when User.findOne found nobody.
LoginBegin(s, username, password) ==
  /\ StoreReady
  /\ task[s].pc = "idle"
  /\ LET mem == FlashConsumed(s)
         existing == FindUser(users, username) IN
     IF ~Truthy(username) \/ ~Truthy(password) THEN
       /\ session' = [session EXCEPT ![s] = [mem EXCEPT !.flash = "Username and password required."]]
       /\ res' = Response(s, "/login", Undef, LoginBody(username, password), 302, "/", "", 0, <<>>, FlashShown(s))
       /\ UNCHANGED <<task, loggedOut>>
     ELSE IF existing = NoUser THEN
       /\ task' = [task EXCEPT ![s] = [pc |-> "login", route |-> "/login", id |-> Undef,
                                       body |-> LoginBody(username, password)]]
       /\ UNCHANGED <<session, res, loggedOut>>
     ELSE IF ~Compare(password, existing.password) THEN
       /\ session' = [session EXCEPT ![s] = [mem EXCEPT !.flash = "Incorrect password."]]
       /\ res' = Response(s, "/login", Undef, LoginBody(username, password), 302, "/", "", 0, <<>>, FlashShown(s))
       /\ UNCHANGED <<task, loggedOut>>
     ELSE
       /\ session' = [session EXCEPT ![s] = [mem EXCEPT !.userId = existing.id]]
       /\ res' = Response(s, "/login", Undef, LoginBody(username, password), 302, "/dashboard", "", existing.id, <<>>, FlashShown(s))
       /\ loggedOut' = loggedOut \ {s}
       /\ UNCHANGED task
  /\ UNCHANGED <<users, cars, nextCar, now, proc>>

\* The rest of the handler when nobody was found: User.create with the hash,
\* then the session.  A rejected create is caught by nobody.
LoginCreate(s) ==
  /\ task[s].pc = "login"
  /\ \E salt \in 1..MaxSalt :
       LET mem == FlashConsumed(s)
           username == task[s].body.username
           password == task[s].body.password
           hash == Hash(password, salt)
           id == Len(users) + 1 IN
       IF UserCreateOk(users, username) THEN
         /\ users' = UserCreate(users, username, hash)
         /\ session' = [session EXCEPT ![s] =
                          [userId |-> id, flash |-> "New account created and logged in."]]
         /\ res' = Response(s, "/login", Undef, LoginBody(username, password), 302, "/dashboard", "", id, <<>>, FlashShown(s))
         /\ loggedOut' = loggedOut \ {s}
       ELSE
         /\ SessionSaved(s, mem, Unhandled)
         /\ res' = Response(s, "/login", Undef, LoginBody(username, password), Unhandled, "", "", 0, <<>>, FlashShown(s))
         /\ UNCHANGED <<users, loggedOut>>
  /\ task' = [task EXCEPT ![s] = Idle]
  /\ UNCHANGED <<cars, nextCar, now, proc>>

\* ----------------------------------------------------------- POST /logout
\* Mutant: the response is sent without destroying the session
LogoutKeepsSession(s) ==
  /\ StoreReady
  /\ task[s].pc = "idle"
  /\ session' = [session EXCEPT ![s] = FlashConsumed(s)]
  /\ res' = Response(s, "/logout", Undef, NoBody, 302, "/", "", 0, <<>>, FlashShown(s))
  /\ loggedOut' = loggedOut \cup {s}
  /\ UNCHANGED <<users, cars, nextCar, now, task, proc>>

\* req.session.destroy: the store drops the session
Logout(s) ==
  /\ StoreReady
  /\ task[s].pc = "idle"
  /\ session' = [session EXCEPT ![s] = EmptySession]
  /\ res' = Response(s, "/logout", Undef, NoBody, 302, "/", "", 0, <<>>, FlashShown(s))
  /\ loggedOut' = loggedOut \cup {s}
  /\ UNCHANGED <<users, cars, nextCar, now, task, proc>>

\* ------------------------------------------------------------ the handlers
\* What a handler does once its gate let the request through, as the user uid:
\* the collection afterwards, whether a document was inserted, the response.
Outcome(cs, created, status, to, error, list) ==
  [cars |-> cs, created |-> created, status |-> status, to |-> to, error |-> error,
   list |-> list]

\* GET /dashboard
DashboardOutcome(uid) ==
  Outcome(cars, FALSE, 200, "", "", SortByCreatedAtDesc(FindByOwner(cars, uid)))

\* GET /api/me
ApiMeOutcome(uid) == Outcome(cars, FALSE, 200, "", "", FindByOwner(cars, uid))

\* The payload POST /cars and POST /cars/:id/update build from the form
FormPayload(b) ==
  [model |-> b.model,
   year |-> ToNumber(b.year),
   mpg |-> ToNumber(b.mpg),
   notes |-> OrElse(b.notes, EMPTY),
   fuel |-> OrElse(b.fuel, GASOLINE),
   isElectric |-> Bool(b.isElectric = ON \/ b.isElectric = Bool(TRUE) \/ b.isElectric = TRUESTR),
   transmission |-> OrElse(b.transmission, AUTO)]

\* POST /cars
CarsCreateOutcome(uid, b, at) ==
  IF CreateOk(FormPayload(b))
  THEN Outcome(Append(cars, NewCar(nextCar, uid, FormPayload(b), at)), TRUE,
               302, "/dashboard", "", <<>>)
  ELSE Outcome(cars, FALSE, Unhandled, "", "", <<>>)

\* POST /cars/:id/update
CarsUpdateOutcome(uid, id, b) ==
  IF UpdateOk(id, FormPayload(b))
  THEN Outcome(UpdateOne(cars, id, uid, FormPayload(b)), FALSE, 302, "/dashboard", "", <<>>)
  ELSE Outcome(cars, FALSE, Unhandled, "", "", <<>>)

\* POST /cars/:id/delete
CarsDeleteOutcome(uid, id) ==
  IF CastObjectId(id) # 0
  THEN Outcome(DeleteOne(cars, id, uid), FALSE, 302, "/dashboard", "", <<>>)
  ELSE Outcome(cars, FALSE, Unhandled, "", "", <<>>)

\* GET /data
DataOutcome(uid) == Outcome(cars, FALSE, 200, "", "", FindByOwner(cars, uid))

AllowedFuels == {GASOLINE, DIESEL, ELECTRIC, HYBRID}
AllowedTransmissions == {AUTO, MANUAL}
AddMinYear == 1885

\* Mutant: the payload of POST /add with its strings as they were sent
AddPayloadUntrimmed(b) ==
  [model |-> b.model,
   year |-> ToNumber(b.year),
   mpg |-> ToNumber(b.mpg),
   notes |-> OrElse(b.notes, EMPTY),
   fuel |-> b.fuel,
   isElectric |-> Bool(b.isElectric = ON \/ b.isElectric = Bool(TRUE)),
   transmission |-> b.transmission]

\* The payload POST /add builds from the JSON body
AddPayload(b) ==
  [model |-> TrimValue(b.model),
   year |-> ToNumber(b.year),
   mpg |-> ToNumber(b.mpg),
   notes |-> OrElse(IF IsNullish(b.notes) THEN Undef ELSE TrimValue(b.notes), EMPTY),
   fuel |-> TrimValue(b.fuel),
   isElectric |-> Bool(b.isElectric = ON \/ b.isElectric = Bool(TRUE)),
   transmission |-> TrimValue(b.transmission)]

\* POST /add
AddOutcome(uid, b, at) ==
  IF ~Truthy(b.model) \/ ~Truthy(b.year) \/ ~Truthy(b.mpg)
  THEN Outcome(cars, FALSE, 400, "", "Model, year, and MPG are required fields.", <<>>)
  ELSE IF LessThan(b.year, AddMinYear)
  THEN Outcome(cars, FALSE, 400, "", "Year must be 1885 or later.", <<>>)
  ELSE IF b.fuel \notin AllowedFuels
  THEN Outcome(cars, FALSE, 400, "", "Fuel must be one of: gasoline, diesel, electric, hybrid.", <<>>)
  ELSE IF b.transmission \notin AllowedTransmissions
  THEN Outcome(cars, FALSE, 400, "", "Transmission must be one of: auto, manual.", <<>>)
  ELSE IF ~HasTrim(b.model) \/ (~IsNullish(b.notes) /\ ~HasTrim(b.notes))
  THEN Outcome(cars, FALSE, Unhandled, "", "", <<>>)
  ELSE IF CreateOk(AddPayload(b))
  THEN Outcome(Append(cars, NewCar(nextCar, uid, AddPayload(b), at)), TRUE,
               302, "/dashboard", "", <<>>)
  ELSE Outcome(cars, FALSE, 500, "", "Failed to add car.", <<>>)

\* The update POST /modify builds from the JSON body
ModifyUpdate(b) ==
  [model |-> b.model,
   year |-> ToNumber(b.year),
   mpg |-> ToNumber(b.mpg),
   notes |-> b.notes,
   fuel |-> b.fuel,
   isElectric |-> Bool(b.isElectric = ON \/ b.isElectric = Bool(TRUE)),
   transmission |-> b.transmission]

\* POST /modify
ModifyOutcome(uid, id, b) ==
  IF ~Truthy(id)
  THEN Outcome(cars, FALSE, 400, "", "Missing id", <<>>)
  ELSE IF UpdateOk(id, ModifyUpdate(b))
  THEN LET cs == UpdateOne(cars, id, uid, ModifyUpdate(b)) IN
       Outcome(cs, FALSE, 200, "", "", FindByOwner(cs, uid))
  ELSE Outcome(cars, FALSE, Unhandled, "", "", <<>>)

\* POST /delete
DeleteOutcome(uid, id) ==
  IF ~Truthy(id)
  THEN Outcome(cars, FALSE, 400, "", "Missing id", <<>>)
  ELSE IF CastObjectId(id) # 0
  THEN LET cs == DeleteOne(cars, id, uid) IN
       Outcome(cs, FALSE, 200, "", "", FindByOwner(cs, uid))
  ELSE Outcome(cars, FALSE, Unhandled, "", "", <<>>)

\* The handler of a route
RouteOutcome(route, uid, id, b, at) ==
  CASE route = "/dashboard" -> DashboardOutcome(uid)
    [] route = "/api/me" -> ApiMeOutcome(uid)
    [] route = "/cars" -> CarsCreateOutcome(uid, b, at)
    [] route = "/cars/:id/update" -> CarsUpdateOutcome(uid, id, b)
    [] route = "/cars/:id/delete" -> CarsDeleteOutcome(uid, id)
    [] route = "/data" -> DataOutcome(uid)
    [] route = "/add" -> AddOutcome(uid, b, at)
    [] route = "/modify" -> ModifyOutcome(uid, id, b)
    [] route = "/delete" -> DeleteOutcome(uid, id)

\* The handler runs with req.session = mem and the response ends the request
Serve(s, mem, route, id, b) ==
  \E at \in {now, now + 1} :
    \E o \in {RouteOutcome(route, mem.userId, id, b, at)} :
    /\ o.created => nextCar <= MaxCars
    /\ o.created \/ at = now
    /\ cars' = o.cars
    /\ nextCar' = IF o.created THEN nextCar + 1 ELSE nextCar
    /\ now' = at
    /\ SessionSaved(s, mem, o.status)
    /\ res' = Response(s, route, id, b, o.status, o.to, o.error, mem.userId, o.list, FlashShown(s))

\* ------------------------------------------------------ strict-auth routes
\* requireAuth, then the handler
Strict(s, route, id, b) ==
  /\ StoreReady \/ NoStoreNeeded(s)
  /\ task[s].pc = "idle"
  /\ LET mem == FlashConsumed(s) IN
     IF RequireAuthPasses(mem)
     THEN Serve(s, mem, route, id, b)
     ELSE /\ session' = [session EXCEPT ![s] = mem]
          /\ res' = Response(s, route, id, b, 302, "/", "", 0, <<>>, FlashShown(s))
          /\ UNCHANGED <<cars, nextCar, now>>
  /\ UNCHANGED <<users, task, loggedOut, proc>>

Dashboard(s) == Strict(s, "/dashboard", Undef, NoBody)

ApiMe(s) == Strict(s, "/api/me", Undef, NoBody)

CarsCreate(s, b) == Strict(s, "/cars", Undef, b)

CarsUpdate(s, id, b) == Strict(s, "/cars/:id/update", id, b)

CarsDelete(s, id) == Strict(s, "/cars/:id/delete", id, NoBody)

\* -------------------------------------------------- permissive-auth routes
DemoPassword == DEMO

\* Mutant: the gate creates the demo account without looking it up
PermissiveNoLookup(s, route, id, b) ==
  /\ StoreReady
  /\ task[s].pc = "idle"
  /\ LET mem == FlashConsumed(s) IN
     IF mem.userId # 0 THEN
       /\ Serve(s, mem, route, id, b)
       /\ UNCHANGED task
     ELSE
       /\ task' = [task EXCEPT ![s] = [pc |-> "gate", route |-> route, id |-> id,
                                       body |-> b]]
       /\ UNCHANGED <<cars, nextCar, now, session, res>>
  /\ UNCHANGED <<users, loggedOut, proc>>

\* Mutant: the gate attaches the demo account to every session
PermissiveAlwaysDemo(s, route, id, b) ==
  /\ StoreReady
  /\ task[s].pc = "idle"
  /\ LET mem == FlashConsumed(s)
         demo == FindUser(users, DEMO) IN
     IF demo # NoUser THEN
       /\ Serve(s, [mem EXCEPT !.userId = demo.id], route, id, b)
       /\ UNCHANGED task
     ELSE
       /\ task' = [task EXCEPT ![s] = [pc |-> "gate", route |-> route, id |-> id,
                                       body |-> b]]
       /\ UNCHANGED <<cars, nextCar, now, session, res>>
  /\ UNCHANGED <<users, loggedOut, proc>>

\* ensureLoggedInOrDemo up to the await of bcrypt.hash, and the handler when
\* the gate gets through without creating the demo account
Permissive(s, route, id, b) ==
  /\ StoreReady
  /\ task[s].pc = "idle"
  /\ LET mem == FlashConsumed(s)
         demo == FindUser(users, DEMO) IN
     IF mem.userId # 0 THEN
       /\ Serve(s, mem, route, id, b)
       /\ UNCHANGED task
     ELSE IF demo # NoUser THEN
       /\ Serve(s, [mem EXCEPT !.userId = demo.id], route, id, b)
       /\ UNCHANGED task
     ELSE
       /\ task' = [task EXCEPT ![s] = [pc |-> "gate", route |-> route, id |-> id,
                                       body |-> b]]
       /\ UNCHANGED <<cars, nextCar, now, session, res>>
  /\ UNCHANGED <<users, loggedOut, proc>>

\* The rest of ensureLoggedInOrDemo when no demo account was found:
\* User.create, then the handler of the suspended request
GateCreate(s) ==
  /\ task[s].pc = "gate"
  /\ \E salt \in 1..MaxSalt :
       LET mem == FlashConsumed(s)
           id1 == Len(users) + 1 IN
       IF UserCreateOk(users, DEMO) THEN
         /\ users' = UserCreate(users, DEMO, Hash(DemoPassword, salt))
         /\ Serve(s, [mem EXCEPT !.userId = id1], task[s].route, task[s].id, task[s].body)
       ELSE
         /\ SessionSaved(s, mem, Unhandled)
         /\ res' = Response(s, task[s].route, task[s].id, task[s].body, Unhandled, "", "",
                            0, <<>>, FlashShown(s))
         /\ UNCHANGED <<users, cars, nextCar, now>>
  /\ task' = [task EXCEPT ![s] = Idle]
  /\ UNCHANGED <<loggedOut, proc>>

Data(s) == Permissive(s, "/data", Undef, NoBody)

Add(s, b) == Permissive(s, "/add", Undef, b)

Modify(s, id, b) == Permissive(s, "/modify", id, b)

Delete(s, id) == Permissive(s, "/delete", id, NoBody)

\* ------------------------------------------------------------- the inputs
ALICE == Str(<<"a", "l", "i", "c", "e">>)
PW == Str(<<"p", "w">>)
CIVIC == Str(<<"C", "i", "v", "i", "c">>)
X == Str(<<"X">>)

Usernames == {ALICE, DEMO, EMPTY}
Passwords == {PW, DEMO, Undef}

Body(model, year, mpg, notes, fuel, isElectric, transmission) ==
  [NoBody EXCEPT !.model = model, !.year = year, !.mpg = mpg, !.notes = notes,
                 !.fuel = fuel, !.isElectric = isElectric,
                 !.transmission = transmission]

Civic == Body(CIVIC, Num(2020), Num(35), Undef, GASOLINE, Undef, AUTO)
Year1885 == Body(X, Num(1885), Num(10), Str(<<" ", "n", " ">>), DIESEL, Bool(TRUE), MANUAL)
Year1800 == Body(X, Num(1800), Num(10), Undef, GASOLINE, Undef, AUTO)
Year1884Text == Body(X, Str(<<"1", "8", "8", "4">>), Num(10), Undef, GASOLINE, Undef, AUTO)
Year0 == Body(X, Num(0), Num(10), Undef, GASOLINE, Undef, AUTO)
YearNegative == Body(X, Num(-1), Num(10), Undef, GASOLINE, Undef, AUTO)
YearWord == Body(X, Str(<<"a", "b", "c">>), Num(10), Undef, GASOLINE, Undef, AUTO)
BadFuel == Body(X, Num(2020), Num(10), Undef, Str(<<"c", "o", "a", "l">>), Undef, AUTO)
BadTransmission == Body(X, Num(2020), Num(10), Undef, HYBRID, Undef, Str(<<"c", "v", "t">>))
PaddedFuel == Body(X, Num(2020), Num(10), Undef, Str(<<" ", "d", "i", "e", "s", "e", "l">>), Undef, AUTO)
NoModel == Body(Undef, Num(2020), Num(10), Undef, ELECTRIC, Undef, AUTO)
NoFuel == Body(Str(<<" ", "X", " ">>), Str(<<"2", "0", "2", "0">>), Str(<<"3", "5">>), Undef, Undef, ON, Undef)
MpgNegative == Body(X, Num(1885), Num(-1), Undef, GASOLINE, Undef, AUTO)
Mpg0 == Body(X, Num(1885), Num(0), Undef, GASOLINE, Undef, AUTO)
Padded == Body(Str(<<" ", "X", " ">>), Str(<<"2", "0", "2", "0">>), Str(<<"3", "5">>), Str(<<" ", "n", " ">>), HYBRID, ON, MANUAL)

Bodies ==
  {Civic, Year1885, Year1800, Year1884Text, Year0, YearNegative, YearWord, BadFuel,
   BadTransmission, PaddedFuel, NoModel, NoFuel, MpgNegative, Mpg0, Padded}

FewBodies == {Civic, Year1800}

\* A string that is no ObjectId
BadId == Str(<<"x">>)

\* req.params.id: the ids of the cars ever created, one never handed out, and
\* a malformed one
PathIds == {Oid(k) : k \in 1..(MaxCars + 1)} \cup {BadId}

\* req.body.id: the same, or missing
BodyIds == PathIds \cup {Undef}

\* ------------------------------------------------------ the specifications
\* The process at the end of its module body, and the store as it finds it
\* first: no account, no car, no session
Init ==
  /\ users = <<>>
  /\ cars = <<>>
  /\ nextCar = 1
  /\ now = 0
  /\ session = [s \in Sessions |-> EmptySession]
  /\ task = [s \in Sessions |-> Idle]
  /\ loggedOut = {}
  /\ res = NoRes
  /\ proc = Connecting

\* Accounts and sessions: the entry page, login, logout, both gates and the
\* listings behind them
Next ==
  \/ ConnectResolve
  \/ ConnectReject
  \/ \E s \in Sessions : Entry(s)
  \/ \E s \in Sessions, u \in Usernames, p \in Passwords : LoginBegin(s, u, p)
  \/ \E s \in Sessions : LoginCreate(s)
  \/ \E s \in Sessions : Logout(s)
  \/ \E s \in Sessions : Dashboard(s)
  \/ \E s \in Sessions : ApiMe(s)
  \/ \E s \in Sessions : Data(s)
  \/ \E s \in Sessions : GateCreate(s)

Spec == Init /\ [][Next]_vars

\* The store after alice registered on s1 and looked at her dashboard, and s2
\* fetched /data through the demo gate and logged out
InitCars ==
  /\ users = UserCreate(UserCreate(<<>>, ALICE, Hash(PW, 1)), DEMO, Hash(DemoPassword, 1))
  /\ cars = <<>>
  /\ nextCar = 1
  /\ now = 0
  /\ session = [s \in Sessions |-> IF s = "s1" THEN [userId |-> 1, flash |-> ""] ELSE EmptySession]
  /\ task = [s \in Sessions |-> Idle]
  /\ loggedOut = {"s2"}
  /\ res = Response("s2", "/logout", Undef, NoBody, 302, "/", "", 0, <<>>, "")
  /\ proc = Connected

\* Every route on the populated store: the car routes of both surfaces behind
\* their gates, login to an existing account, logout
NextCars ==
  \/ \E s \in Sessions : Entry(s)
  \/ \E s \in Sessions, p \in {PW, DEMO} : LoginBegin(s, ALICE, p)
  \/ \E s \in Sessions : Logout(s)
  \/ \E s \in Sessions : Dashboard(s)
  \/ \E s \in Sessions : ApiMe(s)
  \/ \E s \in Sessions, b \in FewBodies : CarsCreate(s, b)
  \/ \E s \in Sessions, id \in PathIds, b \in FewBodies : CarsUpdate(s, id, b)
  \/ \E s \in Sessions, id \in PathIds : CarsDelete(s, id)
  \/ \E s \in Sessions : Data(s)
  \/ \E s \in Sessions, b \in FewBodies : Add(s, b)
  \/ \E s \in Sessions, id \in BodyIds, b \in FewBodies : Modify(s, id, b)
  \/ \E s \in Sessions, id \in BodyIds : Delete(s, id)

SpecCars == InitCars /\ [][NextCars]_vars

\* The validating JSON surface under one session, with every body
NextValidate ==
  \/ Data("s1")
  \/ \E b \in Bodies : Add("s1", b)
  \/ \E id \in BodyIds, b \in Bodies : Modify("s1", id, b)
  \/ \E id \in BodyIds : Delete("s1", id)

SpecValidate == InitCars /\ [][NextValidate]_vars

\* The permissive gate from the empty store: the JSON routes, logout, and
\* login and registration under the name of the demo account
NextGate ==
  \/ ConnectResolve
  \/ ConnectReject
  \/ \E s \in Sessions, p \in {PW, DemoPassword} : LoginBegin(s, DEMO, p)
  \/ \E s \in Sessions : LoginCreate(s)
  \/ \E s \in Sessions : Logout(s)
  \/ \E s \in Sessions : Data(s)
  \/ \E s \in Sessions, b \in FewBodies : Add(s, b)
  \/ \E s \in Sessions, id \in BodyIds, b \in FewBodies : Modify(s, id, b)
  \/ \E s \in Sessions, id \in BodyIds : Delete(s, id)
  \/ \E s \in Sessions : GateCreate(s)

SpecGate == Init /\ [][NextGate]_vars

\* The ObjectId of a car that was created before the ids 1..MaxCars
SeedId == MaxCars + 2

\* The store after alice registered on s1 and created the Civic by the form;
\* nobody came through the permissive gate yet, so there is no demo account
InitList ==
  /\ users = UserCreate(<<>>, ALICE, Hash(PW, 1))
  /\ cars = <<NewCar(SeedId, 1, FormPayload(Civic), 0)>>
  /\ nextCar = 1
  /\ now = 1
  /\ session = [s \in Sessions |-> IF s = "s1" THEN [userId |-> 1, flash |-> ""] ELSE EmptySession]
  /\ task = [s \in Sessions |-> Idle]
  /\ loggedOut = {}
  /\ res = Response("s1", "/cars", Undef, Civic, 302, "/dashboard", "", 1, <<>>,
                    "New account created and logged in.")
  /\ proc = Connected

ListIds == {Oid(SeedId), Oid(1)}

\* The listings of both surfaces and the JSON routes that change what they
\* list, for alice on s1 and for whoever the permissive gate makes of s2
NextList ==
  \/ \E s \in Sessions : Dashboard(s)
  \/ \E s \in Sessions : ApiMe(s)
  \/ \E s \in Sessions : Data(s)
  \/ \E s \in Sessions : Add(s, Year1885)
  \/ \E s \in Sessions, id \in ListIds : Modify(s, id, Year1800)
  \/ \E s \in Sessions, id \in ListIds : Delete(s, id)
  \/ \E s \in Sessions : GateCreate(s)

SpecList == InitList /\ [][NextList]_vars

\* ------------------------------------------------------------- the claims
StrictRoutes == {"/dashboard", "/cars", "/cars/:id/update", "/cars/:id/delete", "/api/me"}
PermissiveRoutes == {"/data", "/add", "/modify", "/delete"}
UpdateRoutes == {"/cars/:id/update", "/modify"}
DeleteRoutes == {"/cars/:id/delete", "/delete"}

\* The request of res was let through to its handler, which answered
Handled(r) == r.status # Unhandled /\ ~(r.status = 302 /\ r.to = "/") /\ r.status # 400

\* The car the id of the last request names, if it is in the collection
Targeted(r) == {i \in 1..Len(cars) : cars[i].id = CastObjectId(r.id)}

\* C1: ownership isolation.  A request served as user A leaves every car
\* whose owner is not A in the collection, unchanged, and every car list in
\* a response holds only cars whose owner is the user it was served as.
C1_OwnershipIsolation ==
  [][/\ \A i \in 1..Len(cars) :
          cars[i].owner # res'.user => \E j \in 1..Len(cars') : cars'[j] = cars[i]
     /\ \A i \in 1..Len(res'.list) : res'.list[i].owner = res'.user]_vars

\* An update went through its handler, aimed at a car of another user
C1_Witness ==
  /\ res.route \in UpdateRoutes
  /\ Handled(res)
  /\ \E i \in Targeted(res) : cars[i].owner # res.user

\* The ids of cars that another user than uid owns
ForeignIds(uid) == {Oid(cars[i].id) : i \in {j \in 1..Len(cars) : cars[j].owner # uid}}

\* The ids among ids that no car has
NoCarIds(ids) == {id \in ids : \A i \in 1..Len(cars) : cars[i].id # CastObjectId(id)}

\* The four update and delete handlers answer and leave the collection alike
\* for the two ids
SameOutcome(uid, id1, id2, b) ==
  /\ ModifyOutcome(uid, id1, b) = ModifyOutcome(uid, id2, b)
  /\ DeleteOutcome(uid, id1) = DeleteOutcome(uid, id2)
  /\ CarsUpdateOutcome(uid, id1, b) = CarsUpdateOutcome(uid, id2, b)
  /\ CarsDeleteOutcome(uid, id1) = CarsDeleteOutcome(uid, id2)

UserIds == {users[i].id : i \in 1..Len(users)}

Answers(s) == task' = task /\ res'.sess = s

\* The accounts of a username
Accounts(us, name) == {i \in 1..Len(us) : us[i].username = name}

\* C3 as stated: a login with non-empty username and password for a username
\* that is not in the directory succeeds and adds exactly one account; for a
\* username that is in it, the same password succeeds and a wrong password
\* fails, and neither adds nor changes an account.
C3_AsStated ==
  [][\A s \in Sessions :
       /\ (task[s].pc = "login" /\ task'[s].pc = "idle") =>
            /\ res'.status = 302 /\ res'.to = "/dashboard"
            /\ Len(users') = Len(users) + 1
            /\ Cardinality(Accounts(users', task[s].body.username)) = 1
       /\ (/\ Answers(s) /\ res'.route = "/login"
           /\ Truthy(res'.body.username) /\ Truthy(res'.body.password)
           /\ FindUser(users, res'.body.username) # NoUser) =>
            /\ users' = users
            /\ (res'.status = 302 /\ res'.to = "/dashboard")
                 = (FindUser(users, res'.body.username).password.of = res'.body.password)]_vars

\* C4 as stated: at most one account per username, and a login whose
\* registration lost to a concurrent one is answered as a login attempt,
\* its password verified against the stored hash of the winner.
C4_AsStated ==
  /\ \A i, j \in 1..Len(users) : users[i].username = users[j].username => i = j
  /\ (/\ res.route = "/login"
      /\ Truthy(res.body.username) /\ Truthy(res.body.password)) =>
       /\ FindUser(users, res.body.username) # NoUser
       /\ res.status = 302
       /\ (res.to = "/dashboard")
            = (FindUser(users, res.body.username).password.of = res.body.password)

\* C5: a login for an existing username with a mismatching password sets the
\* flash message, redirects to the entry page and leaves the session's user
\* reference as it was.
C5_WrongPassword ==
  [][\A s \in Sessions :
       (/\ Answers(s) /\ res'.route = "/login"
        /\ Truthy(res'.body.username) /\ Truthy(res'.body.password)
        /\ FindUser(users, res'.body.username) # NoUser
        /\ FindUser(users, res'.body.username).password.of # res'.body.password) =>
         /\ res'.status = 302 /\ res'.to = "/"
         /\ session'[s].flash = "Incorrect password."
         /\ session'[s].userId = session[s].userId
         /\ users' = users]_vars

\* A logged-in session failed a login and still carries its user
C5_Witness ==
  /\ res.route = "/login" /\ res.status = 302 /\ res.to = "/"
  /\ Truthy(res.body.username) /\ Truthy(res.body.password)
  /\ session[res.sess].flash = "Incorrect password."
  /\ session[res.sess].userId # 0

\* The request of res' was turned away to the entry page
Redirected == res'.status = 302 /\ res'.to = "/"

\* C6 as stated: from a logout on a session until a successful login on it,
\* every request of the session to a strict-auth route is redirected to the
\* entry page.
C6_AsStated ==
  [][\A s \in loggedOut :
       (Answers(s) /\ res'.route \in StrictRoutes) => Redirected]_vars

\* C6 (amended): a logout leaves the session without a user reference; a
\* session without one gets one only by a successful login or by the
\* permissive gate; and as long as it has none, its requests to strict-auth
\* routes are redirected to the entry page.
C6_Logout ==
  [][\A s \in Sessions :
       /\ (Answers(s) /\ res'.route = "/logout") => session'[s] = EmptySession
       /\ (session[s].userId = 0 /\ session'[s].userId # 0) =>
            /\ res'.sess = s
            /\ \/ res'.route = "/login" /\ res'.status = 302 /\ res'.to = "/dashboard"
               \/ res'.route \in PermissiveRoutes
       /\ (/\ s \in loggedOut /\ session[s].userId = 0
           /\ Answers(s) /\ res'.route \in StrictRoutes) => Redirected]_vars

\* s1 logged out and its next request to a strict-auth route was redirected
C6_Witness ==
  /\ "s1" \in loggedOut
  /\ res.sess = "s1" /\ res.route \in StrictRoutes
  /\ res.status = 302 /\ res.to = "/"

\* C7: the strict gate.  A request to a strict-auth route on a session
\* without a user reference is redirected to the entry page and changes no
\* account and no car; on a session with one, the route's handler runs as
\* that user.
C7_StrictGate ==
  [][\A s \in Sessions :
       (Answers(s) /\ res'.route \in StrictRoutes) =>
         IF session[s].userId = 0
         THEN Redirected /\ users' = users /\ cars' = cars /\ nextCar' = nextCar
         ELSE LET o == RouteOutcome(res'.route, session[s].userId, res'.id, res'.body, now') IN
              /\ res'.user = session[s].userId
              /\ cars' = o.cars
              /\ res'.status = o.status /\ res'.to = o.to /\ res'.list = o.list]_vars

\* A creation with a valid body was turned away by the strict gate
C7_Witness ==
  /\ res.route = "/cars" /\ res.body = Civic
  /\ res.status = 302 /\ res.to = "/"
  /\ session[res.sess].userId = 0

\* C8: the permissive gate is idempotent.  The directory never holds more
\* than one account named "demo"; the gate goes on to create the account only
\* when its lookup found none; and every request of a session without a user
\* reference that the gate lets through is served as the one demo account,
\* which its session then carries.
C8_GateIdempotent ==
  [][/\ Cardinality(Accounts(users', DEMO)) <= 1
     /\ \A s \in Sessions :
          /\ (task[s].pc = "idle" /\ task'[s].pc = "gate") =>
               Accounts(users, DEMO) = {}
          /\ (/\ session[s].userId = 0 /\ task'[s].pc = "idle"
              /\ res'.sess = s /\ res'.route \in PermissiveRoutes
              /\ res'.status # Unhandled) =>
               /\ Cardinality(Accounts(users', DEMO)) = 1
               /\ res'.user = FindUser(users', DEMO).id
               /\ session'[s].userId = FindUser(users', DEMO).id]_vars

\* Both sessions came through the gate and carry the same, only demo account
C8_Witness ==
  /\ res.route = "/data" /\ res.status = 200
  /\ Cardinality(Accounts(users, DEMO)) = 1
  /\ \A s \in Sessions : session[s].userId = FindUser(users, DEMO).id
  /\ \A i \in 1..Len(users) : users[i].username = DEMO => users[i].password.of = DemoPassword

\* The year of a body as a number, when it is one
YearIs(b, k) == ToNumber(b.year) = Num(k)

YearBelow(b, k) == ToNumber(b.year).t = "number" /\ ToNumber(b.year).n < k

\* The other fields of a body are valid by the schema and the validation
OtherwiseValid(b) ==
  /\ b.model.t = "string" /\ Trim(b.model.s) # <<>>
  /\ ToNumber(b.mpg).t = "number" /\ ToNumber(b.mpg).n >= 0 /\ ~IsNullish(b.mpg)
  /\ IsNullish(b.notes) \/ b.notes.t = "string"
  /\ b.fuel \in FuelEnum
  /\ b.transmission \in TransmissionEnum

\* C9 as stated: every POST /add whose year is below 1885 is rejected with
\* status 400 and the error "Year must be 1885 or later." and creates no car;
\* one with year exactly 1885 and otherwise valid fields is accepted and
\* creates the car.
C9_AsStated ==
  [][(Answers(res'.sess) /\ res'.route = "/add") =>
       /\ YearBelow(res'.body, 1885) =>
            /\ res'.status = 400
            /\ res'.error = "Year must be 1885 or later."
            /\ cars' = cars
       /\ (YearIs(res'.body, 1885) /\ OtherwiseValid(res'.body)) =>
            /\ res'.status = 302 /\ res'.to = "/dashboard"
            /\ Len(cars') = Len(cars) + 1
            /\ cars'[Len(cars')].year = Num(1885)]_vars

\* A fuel or transmission was sent and is outside its enumerated set
BadEnum(b) ==
  \/ ~IsNullish(b.fuel) /\ b.fuel \notin FuelEnum
  \/ ~IsNullish(b.transmission) /\ b.transmission \notin TransmissionEnum

\* C10 as stated: no stored car has a fuel or transmission outside the
\* enumerated sets; /add, and /modify of a car of the caller, reject a
\* request that sends one; and what /add stores is what was sent.
C10_AsStated ==
  /\ \A i \in 1..Len(cars) :
       cars[i].fuel \in FuelEnum /\ cars[i].transmission \in TransmissionEnum
  /\ (/\ res.route \in {"/add", "/modify"} /\ BadEnum(res.body)
      /\ res.route = "/modify" => \E i \in Targeted(res) : cars[i].owner = res.user) =>
       res.status = 400
  /\ (res.route = "/add" /\ res.status = 302) =>
       /\ cars[Len(cars)].fuel = res.body.fuel
       /\ cars[Len(cars)].transmission = res.body.transmission

\* The values a body submits for a car, after the defaulting and trimming
\* rules: strings trimmed, numbers as numbers, notes "" and isElectric false
\* when not sent
Submitted(b) ==
  [model |-> Str(Trim(b.model.s)),
   year |-> ToNumber(b.year),
   mpg |-> ToNumber(b.mpg),
   notes |-> IF IsNullish(b.notes) THEN EMPTY ELSE Str(Trim(b.notes.s)),
   fuel |-> Str(Trim(b.fuel.s)),
   isElectric |-> IF IsNullish(b.isElectric) THEN Bool(FALSE)
                  ELSE Bool(b.isElectric \in {Bool(TRUE), ON}),
   transmission |-> Str(Trim(b.transmission.s))]

\* The seven fields of a car document
FieldsOf(car) == [f \in FieldNames |-> car[f]]

\* C11: create/list round trip.  When POST /add answered with its redirect
\* and the next request is GET /data on the same session, the list it returns
\* holds a car whose seven fields are the submitted values after defaulting
\* and trimming, and whose owner is the user of the session.
C11_RoundTrip ==
  [][(/\ res.route = "/add" /\ res.status = 302
      /\ res'.route = "/data" /\ Answers(res.sess)) =>
       /\ res'.status = 200
       /\ \E i \in 1..Len(res'.list) :
            /\ FieldsOf(res'.list[i]) = Submitted(res.body)
            /\ res'.list[i].owner = session'[res.sess].userId
            /\ res'.list[i].owner = res.user]_vars

\* The padded body was added and GET /data lists it trimmed and converted
C11_Witness ==
  /\ res.route = "/data" /\ res.status = 200
  /\ \E i \in 1..Len(res.list) :
       /\ FieldsOf(res.list[i]) = Submitted(Padded)
       /\ res.list[i].model = X /\ res.list[i].year = Num(2020)
       /\ res.list[i].notes = Str(<<"n">>) /\ res.list[i].isElectric = Bool(TRUE)
       /\ res.list[i].createdAt = now

\* A body with a missing, out-of-range or invalid-enum field
InvalidBody(b) ==
  \/ IsNullish(b.model) \/ IsNullish(b.year) \/ IsNullish(b.mpg)
  \/ ToNumber(b.year) = NaN
  \/ YearBelow(b, 1885)
  \/ ToNumber(b.mpg).t = "number" /\ ToNumber(b.mpg).n < 0
  \/ b.fuel \notin FuelEnum
  \/ b.transmission \notin TransmissionEnum

\* C12 as stated: every POST /add with a missing, out-of-range or
\* invalid-enum field is answered 400 with a message, never 500, and
\* creates no car.
C12_AsStated ==
  [][(Answers(res'.sess) /\ res'.route = "/add" /\ InvalidBody(res'.body)) =>
       /\ res'.status = 400
       /\ res'.error # ""
       /\ cars' = cars]_vars

\* C13 as stated: startup ordering.  No request is answered before the store
\* connection has succeeded, and none ever when it fails and the process
\* exits.
C13_AsStated == res # NoRes => proc = Connected

\* The step ends a request of session s, answered (or not) by res'
Completes(s) ==
  /\ res'.sess = s
  /\ task'[s].pc = "idle"
  /\ \A other \in Sessions \ {s} : task'[other] = task[other]
  /\ proc' = proc

\* C14 as stated: flash messages are single-use.  The request that ends on
\* a session is shown the flash message the session held, and the session
\* holds none afterwards unless the handler (POST /login) set a new one.
C14_AsStated ==
  [][\A s \in Sessions :
       Completes(s) =>
         /\ res'.flash = session[s].flash
         /\ res'.route # "/login" => session'[s].flash = ""]_vars

\* The POST routes of the HTML-form surface
FormPosts == {"/cars", "/cars/:id/update", "/cars/:id/delete"}

\* C15 as stated: every POST to /cars, /cars/:id/update or /cars/:id/delete
\* that came through the strict gate is answered with a redirect to
\* /dashboard, whatever its payload and whatever its id.
C15_AsStated ==
  (res.route \in FormPosts /\ res.user # 0) =>
    (res.status = 302 /\ res.to = "/dashboard")

\* C16 as stated: every stored car has a model, a year of at least 1885, an
\* mpg of at least 0, a fuel and a transmission of the enumerated sets.
C16_AsStated ==
  \A i \in 1..Len(cars) :
    /\ cars[i].model.t = "string" /\ cars[i].model.s # <<>>
    /\ cars[i].year.t = "number" /\ cars[i].year.n >= 1885
    /\ cars[i].mpg.t = "number" /\ cars[i].mpg.n >= 0
    /\ cars[i].fuel \in FuelEnum
    /\ cars[i].transmission \in TransmissionEnum

\* The routes that answer with a car list
ListRoutes == {"/dashboard", "/data", "/api/me", "/modify", "/delete"}

\* C17 as stated: every car list in a response is ordered by creation time,
\* most recent first: a car created later never comes after one created
\* earlier.
C17_AsStated ==
  res.route \in ListRoutes =>
    \A i, j \in 1..Len(res.list) :
      i < j => res.list[i].createdAt >= res.list[j].createdAt

\* C18: the owner is fixed at creation.  A car that enters the collection
\* was created by POST /cars or POST /add, and its owner is the user
\* reference of the session of that request, which is an existing account;
\* a car that stays in the collection keeps its owner; no two cars share an
\* id.
C18_OwnerFixed ==
  [][\A j \in 1..Len(cars') :
       /\ \A k \in 1..Len(cars') : cars'[k].id = cars'[j].id => k = j
       /\ IF \E i \in 1..Len(cars) : cars[i].id = cars'[j].id
          THEN \A i \in 1..Len(cars) :
                 cars[i].id = cars'[j].id => cars'[j].owner = cars[i].owner
          ELSE /\ res'.route \in {"/cars", "/add"}
               /\ cars'[j].owner = res'.user
               /\ cars'[j].owner = session'[res'.sess].userId
               /\ \E u \in 1..Len(users') : users'[u].id = cars'[j].owner]_vars

\* The demo user, attached by the gate, created a car and then updated it
C18_Witness ==
  /\ res.route \in UpdateRoutes /\ res.status \in {200, 302}
  /\ \E i \in Targeted(res) :
       /\ cars[i].owner = res.user
       /\ cars[i].owner = FindUser(users, DEMO).id
       /\ cars[i].year = Num(1800)

\* C19: the permissive gate leaves an authenticated session alone.  A
\* request to /data, /add, /modify or /delete on a session that carries a
\* user reference never waits for the creation of the demo account, changes
\* no account and not the reference, and is answered by the route's handler
\* acting as that user.
C19_GateLeavesSession ==
  [][\A s \in Sessions :
       session[s].userId # 0 =>
         /\ task[s].pc = "idle" => task'[s].pc # "gate"
         /\ (Answers(s) /\ res'.route \in PermissiveRoutes) =>
              LET o == RouteOutcome(res'.route, session[s].userId, res'.id, res'.body, now') IN
              /\ users' = users
              /\ session'[s].userId = session[s].userId
              /\ res'.user = session[s].userId
              /\ cars' = o.cars
              /\ res'.status = o.status /\ res'.list = o.list]_vars

\* alice added a car through the permissive gate on her session while the
\* directory holds no demo account, and the car is hers
C19_Witness ==
  /\ res.sess = "s1" /\ res.route = "/add" /\ res.status = 302
  /\ session["s1"].userId = FindUser(users, ALICE).id
  /\ FindUser(users, DEMO) = NoUser
  /\ \E i \in 1..Len(cars) :
       /\ cars[i].id = nextCar - 1
       /\ cars[i].owner = FindUser(users, ALICE).id
       /\ cars[i].createdAt = now

====
